---- MODULE Spec2Model ----
(***************************************************************************)
(* A model of build/soong scripts/soong_only_diff_test.py: the extra-field *)
(* parser and digest-map builder (get_local_file_sha256_fields), the two   *)
(* comparison passes (compare_sha_maps, compare_installed_img_sha_maps)    *)
(* and the orchestration in main.                                          *)
(*                                                                         *)
(* Bytes are naturals in 0..255, byte strings are sequences of bytes, and  *)
(* a Python dict is a function whose DOMAIN is the set of its keys.        *)
(***************************************************************************)
EXTENDS Integers, Sequences, FiniteSets, TLC

(***************************************************************************)
(* Bounds of the model.                                                    *)
(***************************************************************************)
\* blocks concatenated into one extra-field buffer
MaxBlocks == 3
\* bytes cut off the end of a buffer (truncated trailing data)
MaxCut == 2
\* entries of an archive whose entries are processed one after the other
MaxEntries == 2
\* keys of one map given to a comparison pass
MaxKeys == 2
\* products on the command line
MaxProducts == 2
\* modified projects that `repo status` lists
MaxProjects == 1
\* arguments of rustc_linker.py after the clang binary
MaxArgs == 3
\* characters of the standard output of du
MaxStdout == 3

(***************************************************************************)
(* Byte strings.                                                           *)
(***************************************************************************)
Min(a, b) == IF a <= b THEN a ELSE b

\* Python's s[from:to] for 0 <= from, 0 <= to: indices past the end are
\* clamped, never an error.
Slice(s, from, to) == SubSeq(s, from + 1, Min(to, Len(s)))

\* Mutant: a test for "is not None" that the empty byte string passes.
Truthy_NotNone(b) == Len(b) >= 0

\* Python truthiness of a bytes object or of None (modelled as <<>> with
\* status "none"): only a non-empty byte string is true.
Truthy(b) == Len(b) > 0

\* struct.unpack('<H', b)[0] for a 2-byte b.
UnpackH(b) == b[1] + 256 * b[2]

\* struct.unpack raises struct.error unless the buffer has exactly the size
\* of the format.
UnpackRaises(b, size) == Len(b) # size

(***************************************************************************)
(* The extra-field scan of one entry (the while loop).                     *)
(***************************************************************************)
SHA_256_HEADER_ID == 18791

SHA_256_HEADER_SIGNATURE == 38164

\* The loop's variables where it ends: status "none" is found_sha_in_file =
\* None (the loop ran to its end), "found" is the break with the bytes after
\* the signature, "raise" is struct.error leaving the function; i is the
\* cursor and block_data_size the size last unpacked (0 before any block).
ScanNone(i, block_data_size) ==
    [status |-> "none", sha |-> <<>>, i |-> i, block_data_size |-> block_data_size]

ScanFound(sha, i, block_data_size) ==
    [status |-> "found", sha |-> sha, i |-> i, block_data_size |-> block_data_size]

ScanRaise(i, block_data_size) ==
    [status |-> "raise", sha |-> <<>>, i |-> i, block_data_size |-> block_data_size]

\* while i + 4 <= len(local_extra_data)
ScanGuard(local_extra_data, i) == i + 4 <= Len(local_extra_data)

\* Mutant: the 4 header bytes are left out of the block's end.
BlockEnd_NoHeader(i, block_data_size) == i + block_data_size

\* current_block_end = i + 4 + block_data_size
BlockEnd(i, block_data_size) == i + 4 + block_data_size

\* if block_header_id == SHA_256_HEADER_ID: if block_data_size >= 2:
IsShaBlock(block_header_id, block_data_size) ==
    block_header_id = SHA_256_HEADER_ID /\ block_data_size >= 2

\* data_bytes = local_extra_data[i+4 : current_block_end]
DataBytes(local_extra_data, i, current_block_end) ==
    Slice(local_extra_data, i + 4, current_block_end)

\* found_sha_in_file = data_bytes[2:]
ShaOf(data_bytes) == Slice(data_bytes, 2, Len(data_bytes))

\* i += (4 + block_data_size)
NextBlock(i, block_data_size) == i + (4 + block_data_size)

\* Mutant: the loop without its break, so a later digest block overwrites
\* found_sha_in_file.
RECURSIVE ScanFrom_NoBreak(_, _, _)
ScanFrom_NoBreak(local_extra_data, i, last_size) ==
    IF ~ScanGuard(local_extra_data, i)
    THEN ScanNone(i, last_size)
    ELSE LET hdr == Slice(local_extra_data, i, i + 4)
             block_header_id == UnpackH(SubSeq(hdr, 1, 2))
             block_data_size == UnpackH(SubSeq(hdr, 3, 4))
             current_block_end == BlockEnd(i, block_data_size)
             data_bytes == DataBytes(local_extra_data, i, current_block_end)
             sig_bytes == Slice(data_bytes, 0, 2)
             rest == ScanFrom_NoBreak(local_extra_data,
                                      NextBlock(i, block_data_size), block_data_size)
         IN  IF IsShaBlock(block_header_id, block_data_size)
             THEN IF UnpackRaises(sig_bytes, 2)
                  THEN ScanRaise(i, block_data_size)
                  ELSE IF UnpackH(sig_bytes) = SHA_256_HEADER_SIGNATURE
                          /\ rest.status = "none"
                       THEN ScanFound(ShaOf(data_bytes), i, block_data_size)
                       ELSE rest
             ELSE rest

RECURSIVE ScanFrom(_, _, _)
ScanFrom(local_extra_data, i, last_size) ==
    IF ~ScanGuard(local_extra_data, i)
    THEN ScanNone(i, last_size)
    ELSE LET hdr == Slice(local_extra_data, i, i + 4)
             block_header_id == UnpackH(SubSeq(hdr, 1, 2))
             block_data_size == UnpackH(SubSeq(hdr, 3, 4))
             current_block_end == BlockEnd(i, block_data_size)
             data_bytes == DataBytes(local_extra_data, i, current_block_end)
             sig_bytes == Slice(data_bytes, 0, 2)
         IN  IF IsShaBlock(block_header_id, block_data_size)
             THEN IF UnpackRaises(sig_bytes, 2)
                  THEN ScanRaise(i, block_data_size)
                  ELSE IF UnpackH(sig_bytes) = SHA_256_HEADER_SIGNATURE
                       THEN ScanFound(ShaOf(data_bytes), i, block_data_size)
                       ELSE ScanFrom(local_extra_data,
                                     NextBlock(i, block_data_size), block_data_size)
             ELSE ScanFrom(local_extra_data,
                           NextBlock(i, block_data_size), block_data_size)

\* i = 0; found_sha_in_file = None; while ...
ScanExtra(local_extra_data) == ScanFrom(local_extra_data, 0, 0)

(***************************************************************************)
(* Archive entries (zipfile.ZipInfo) and one iteration of the for loop.    *)
(* external_attr is a 32-bit value; it is kept as its two 16-bit halves,   *)
(* hi = (external_attr >> 16) & 0xFFFF and lo = external_attr & 0xFFFF.    *)
(***************************************************************************)
DirNames == {"SYSTEM/bin/"}

FileNames == {"IMAGES/system.img", "SYSTEM/build.prop"}

\* Mutant: the test for a directory entry is left out.
IsDir_Never(member_info) == FALSE

\* ZipInfo.is_dir(): the name ends with a slash.
IsDir(member_info) == member_info.filename \in DirNames

\* member_info.external_attr != 0
AttrNonZero(external_attr) == external_attr.hi # 0 \/ external_attr.lo # 0

\* mode = (member_info.external_attr >> 16) & 0xFFFF
ModeOf(external_attr) == external_attr.hi % 65536

\* stat.S_IFMT(mode) = mode & 0o170000
S_IFMT(mode) == ((mode \div 4096) % 16) * 4096

\* Mutant: every entry with a UNIX mode is taken for a symbolic link.
S_ISLNK_AnyMode(mode) == mode # 0

\* stat.S_ISLNK(mode): S_IFMT(mode) == S_IFLNK (0o120000)
S_ISLNK(mode) == S_IFMT(mode) = 10 * 4096

\* zip_ref.read(name): the payload of the archive's last entry of that name.
ZipRead(zip, name) ==
    LET at == {k \in 1..Len(zip) : zip[k].filename = name}
    IN  zip[CHOOSE k \in at : \A j \in at : j <= k].payload

\* What one iteration of the for loop does with member_info: "continue"
\* (directory), "sha" (the digest is stored under the file name), "symlink"
\* (the link target is stored under the file name), "skip" (a non-symlink
\* with external attributes and no digest: nothing happens), "warn" (the
\* sha-not-found line on stderr) or "raise".
EntryOutcome(kind, value) == [kind |-> kind, value |-> value]

ProcessEntry(zip, member_info) ==
    IF IsDir(member_info)
    THEN EntryOutcome("continue", <<>>)
    ELSE LET scan == ScanExtra(member_info.extra)
         IN  IF scan.status = "raise"
             THEN EntryOutcome("raise", <<>>)
             ELSE IF Truthy(scan.sha)
                  THEN EntryOutcome("sha", scan.sha)
                  ELSE IF AttrNonZero(member_info.external_attr)
                       THEN IF S_ISLNK(ModeOf(member_info.external_attr))
                            THEN EntryOutcome("symlink", ZipRead(zip, member_info.filename))
                            ELSE EntryOutcome("skip", <<>>)
                       ELSE EntryOutcome("warn", <<>>)

\* sha256_checksums[member_info.filename] = value
DictSet(d, key, value) ==
    [k \in DOMAIN d \cup {key} |-> IF k = key THEN value ELSE d[k]]

EmptyDict == [k \in {} |-> <<>>]

\* The function's state between two iterations of the for loop: the dict,
\* the names of the "sha not found" lines written to stderr, and "raise"
\* once an exception has left the loop.
BuildState(status, map, warned) ==
    [status |-> status, map |-> map, warned |-> warned]

\* The body of the for loop for member_info.
EntryStep(zip, member_info, st) ==
    LET out == ProcessEntry(zip, member_info)
    IN  BuildState(
            IF out.kind = "raise" THEN "raise" ELSE st.status,
            IF out.kind \in {"sha", "symlink"}
            THEN DictSet(st.map, member_info.filename, out.value)
            ELSE st.map,
            IF out.kind = "warn"
            THEN Append(st.warned, member_info.filename)
            ELSE st.warned)

\* The for loop from entry k on, as one computation.
RECURSIVE BuildFrom(_, _, _)
BuildFrom(zip, k, st) ==
    IF k > Len(zip) \/ st.status = "raise"
    THEN st
    ELSE BuildFrom(zip, k + 1, EntryStep(zip, zip[k], st))

\* get_local_file_sha256_fields on an existing archive.
BuildMap(zip) == BuildFrom(zip, 1, BuildState("ok", EmptyDict, <<>>))

(***************************************************************************)
(* Strings: Python orders str by code point, lexicographically.            *)
(***************************************************************************)
\* The code points of the strings that are keys of a map.
Chars ==
    ("IMAGES/boot.img" :> <<73, 77, 65, 71, 69, 83, 47, 98, 111, 111, 116, 46, 105, 109, 103>>)
    @@ ("IMAGES/system.img" :> <<73, 77, 65, 71, 69, 83, 47, 115, 121, 115, 116, 101, 109, 46, 105, 109, 103>>)
    @@ ("SYSTEM/build.prop" :> <<83, 89, 83, 84, 69, 77, 47, 98, 117, 105, 108, 100, 46, 112, 114, 111, 112>>)
    @@ ("system.img" :> <<115, 121, 115, 116, 101, 109, 46, 105, 109, 103>>)
    @@ ("boot.img" :> <<98, 111, 111, 116, 46, 105, 109, 103>>)
    @@ ("vendor_ramdisk.img" :> <<118, 101, 110, 100, 111, 114, 95, 114, 97, 109, 100, 105, 115, 107, 46, 105, 109, 103>>)

RECURSIVE SeqLess(_, _)
SeqLess(s, t) ==
    IF Len(t) = 0 THEN FALSE
    ELSE IF Len(s) = 0 THEN TRUE
    ELSE IF s[1] # t[1] THEN s[1] < t[1]
    ELSE SeqLess(Tail(s), Tail(t))

\* a < b for two str
StrLess(a, b) == SeqLess(Chars[a], Chars[b])

\* sorted(list(S)) for a set S of str
RECURSIVE Sorted(_)
Sorted(S) ==
    IF S = {} THEN <<>>
    ELSE LET least == CHOOSE x \in S : \A y \in S \ {x} : StrLess(x, y)
         IN  <<least>> \o Sorted(S \ {least})

Range(f) == {f[x] : x \in DOMAIN f}

(***************************************************************************)
(* The allowlists and the comparison of one key.                           *)
(***************************************************************************)
SHA_DIFF_ALLOWLIST ==
    { "IMAGES/system.img", "IMAGES/userdata.img", "IMAGES/vbmeta_system.img",
      "META/apkcerts.txt", "META/misc_info.txt", "META/vbmeta_digest.txt" }

INSTALLED_IMG_FILES ==
    << "boot.img", "bootloader.img", "dtbo.img", "product.img", "pvmfw.img",
       "ramdisk.img", "system_dlkm.img", "system_ext.img", "system_other.img",
       "system.img", "userdata.img", "vbmeta.img", "vbmeta_system.img",
       "vbmeta_vendor.img", "vendor_boot.img", "vendor_dlkm.img", "vendor.img",
       "vendor_kernel_boot.img", "vendor_kernel_ramdisk.img",
       "vendor_ramdisk.img" >>

\* The list literal has no comma after "vendor_kernel_ramdisk.img": Python
\* joins the two adjacent string literals into one element.
INSTALLED_IMG_FILES_SHA_DIFF_ALLOWLIST ==
    << "product.img", "system_dlkm.img", "system_ext.img", "system_other.img",
       "system.img", "userdata.img", "vbmeta.img", "vbmeta_system.img",
       "vbmeta_vendor.img", "vendor_boot.img", "vendor_dlkm.img", "vendor.img",
       "vendor_kernel_ramdisk.imgvendor_ramdisk.img" >>

\* Mutant: one allowlist, the union of the two, for both passes.
Allowlisted_EitherList(pass, key) ==
    key \in SHA_DIFF_ALLOWLIST \cup Range(INSTALLED_IMG_FILES_SHA_DIFF_ALLOWLIST)

\* allowlisted = key in <the pass's allowlist>; pass "zip" is
\* compare_sha_maps, pass "img" is compare_installed_img_sha_maps.
Allowlisted(pass, key) ==
    IF pass = "zip"
    THEN key \in SHA_DIFF_ALLOWLIST
    ELSE key \in Range(INSTALLED_IMG_FILES_SHA_DIFF_ALLOWLIST)

\* allowlisted_str
AllowlistedStr(allowlisted) ==
    IF allowlisted THEN "ALLOWLISTED" ELSE "NOT ALLOWLISTED"

\* One printed line of the report: the pass whose format string wrote it
\* (the image pass puts $ANDROID_PRODUCT_OUT/ before the key), the key, the
\* reason phrase and the allowlist text in parentheses.
Line(pass, key, reason, allowlisted) ==
    [pass |-> pass, key |-> key, reason |-> reason,
     allowlisted_str |-> AllowlistedStr(allowlisted)]

NotInSoongOnly == "not found in soong only"

NotInSoongPlusMake == "not found in soong plus make"

ShaDiffer == "sha value differ"

\* Mutant: the verdict is overwritten instead of and-ed.
AndVerdict_Overwrite(all_identical, allowlisted) == allowlisted

\* all_identical = all_identical and allowlisted
AndVerdict(all_identical, allowlisted) == all_identical /\ allowlisted

\* Mutant: any two values count as different.
ValuesDiffer_Always(x, y) == TRUE

\* soong_only_map[key] != soong_plus_make_map[key]
ValuesDiffer(x, y) == x # y

\* The result of the loop body: the lines printed and the verdict after it.
KeyResult(lines, all_identical) ==
    [lines |-> lines, all_identical |-> all_identical]

\* Mutant: the second test is an if of its own and not an elif, and the
\* values are read with a default, so a key missing from the soong-only map
\* goes on to the tests that follow.
CompareKey_TwoIfs(pass, key, soong_only_map, soong_plus_make_map, all_identical) ==
    LET allowlisted == Allowlisted(pass, key)
        first == IF key \notin DOMAIN soong_only_map
                 THEN <<Line(pass, key, NotInSoongOnly, allowlisted)>>
                 ELSE <<>>
        second == IF key \notin DOMAIN soong_plus_make_map
                  THEN <<Line(pass, key, NotInSoongPlusMake, allowlisted)>>
                  ELSE IF key \notin DOMAIN soong_only_map
                          \/ ValuesDiffer(soong_only_map[key], soong_plus_make_map[key])
                       THEN <<Line(pass, key, ShaDiffer, allowlisted)>>
                       ELSE <<>>
    IN  KeyResult(first \o second,
                  IF Len(first \o second) > 0
                  THEN AndVerdict(all_identical, allowlisted)
                  ELSE all_identical)

\* Mutant: the two "not found" messages are exchanged.
CompareKey_Swapped(pass, key, soong_only_map, soong_plus_make_map, all_identical) ==
    LET allowlisted == Allowlisted(pass, key)
    IN  IF key \notin DOMAIN soong_only_map
        THEN KeyResult(<<Line(pass, key, NotInSoongPlusMake, allowlisted)>>,
                       AndVerdict(all_identical, allowlisted))
        ELSE IF key \notin DOMAIN soong_plus_make_map
        THEN KeyResult(<<Line(pass, key, NotInSoongOnly, allowlisted)>>,
                       AndVerdict(all_identical, allowlisted))
        ELSE IF ValuesDiffer(soong_only_map[key], soong_plus_make_map[key])
        THEN KeyResult(<<Line(pass, key, ShaDiffer, allowlisted)>>,
                       AndVerdict(all_identical, allowlisted))
        ELSE KeyResult(<<>>, all_identical)

\* The body of: for key in all_keys
CompareKey(pass, key, soong_only_map, soong_plus_make_map, all_identical) ==
    LET allowlisted == Allowlisted(pass, key)
    IN  IF key \notin DOMAIN soong_only_map
        THEN KeyResult(<<Line(pass, key, NotInSoongOnly, allowlisted)>>,
                       AndVerdict(all_identical, allowlisted))
        ELSE IF key \notin DOMAIN soong_plus_make_map
        THEN KeyResult(<<Line(pass, key, NotInSoongPlusMake, allowlisted)>>,
                       AndVerdict(all_identical, allowlisted))
        ELSE IF ValuesDiffer(soong_only_map[key], soong_plus_make_map[key])
        THEN KeyResult(<<Line(pass, key, ShaDiffer, allowlisted)>>,
                       AndVerdict(all_identical, allowlisted))
        ELSE KeyResult(<<>>, all_identical)

\* Mutant: the keys of one map, then the keys only the other has, with no
\* sort over the whole.
AllKeys_Unsorted(soong_only_map, soong_plus_make_map) ==
    Sorted(DOMAIN soong_only_map)
    \o Sorted(DOMAIN soong_plus_make_map \ DOMAIN soong_only_map)

\* all_keys = sorted(list(soong_only_map.keys() | soong_plus_make_map.keys()))
AllKeys(soong_only_map, soong_plus_make_map) ==
    Sorted(DOMAIN soong_only_map \cup DOMAIN soong_plus_make_map)

\* The for loop over keys from the k-th on, as one computation.
RECURSIVE CompareFrom(_, _, _, _, _, _)
CompareFrom(pass, keys, k, soong_only_map, soong_plus_make_map, acc) ==
    IF k > Len(keys)
    THEN acc
    ELSE LET r == CompareKey(pass, keys[k], soong_only_map, soong_plus_make_map,
                             acc.all_identical)
         IN  CompareFrom(pass, keys, k + 1, soong_only_map, soong_plus_make_map,
                         KeyResult(acc.lines \o r.lines, r.all_identical))

\* A whole pass: the lines it prints to the report and the value it returns.
ComparePass(pass, soong_only_map, soong_plus_make_map) ==
    CompareFrom(pass, AllKeys(soong_only_map, soong_plus_make_map), 1,
                soong_only_map, soong_plus_make_map, KeyResult(<<>>, TRUE))

(***************************************************************************)
(* Inputs: extra-field buffers made of blocks, possibly truncated.         *)
(***************************************************************************)
Digest1 == [k \in 1..32 |-> 170]

Digest2 == [k \in 1..32 |-> k]

\* A block: header id and data size, little endian, then the payload.
Block(id, size, payload) ==
    <<id % 256, id \div 256, size % 256, size \div 256>> \o payload

Sig == <<SHA_256_HEADER_SIGNATURE % 256, SHA_256_HEADER_SIGNATURE \div 256>>

\* The well-formed digest block of a digest: id 0x4967, size 34, signature.
DigestBlock(d) == Block(SHA_256_HEADER_ID, 34, Sig \o d)

\* Well-formed blocks that are not recognised as digest blocks: another
\* header id (one of them carrying the signature bytes), or the digest id
\* with no room for a signature or with another signature.
OtherBlocks ==
    { Block(51966, 0, <<>>),
      Block(21589, 2, Sig),
      Block(SHA_256_HEADER_ID, 0, <<>>),
      Block(SHA_256_HEADER_ID, 1, <<20>>),
      Block(SHA_256_HEADER_ID, 2, <<149, 20>>) }

\* The digest-id block that holds the signature and no digest byte.
SigOnlyBlock == Block(SHA_256_HEADER_ID, 2, Sig)

Blocks == {DigestBlock(Digest1), DigestBlock(Digest2), SigOnlyBlock} \cup OtherBlocks

\* The concatenations of at most n blocks of B.
RECURSIVE Concats(_, _)
Concats(B, n) ==
    IF n = 0 THEN {<<>>}
    ELSE LET prev == Concats(B, n - 1)
         IN  prev \cup {s \o b : s \in prev, b \in B}

Extras ==
    {Slice(s, 0, Len(s) - c) : s \in Concats(Blocks, MaxBlocks), c \in 0..MaxCut}

\* external_attr: none, MS-DOS archive bit only, regular file 0o100644,
\* symbolic link 0o120777.
ExternalAttrs ==
    { [hi |-> 0, lo |-> 0], [hi |-> 0, lo |-> 32],
      [hi |-> 33188, lo |-> 0], [hi |-> 41471, lo |-> 0] }

\* Entry payloads (a symlink's payload is its target): a short path, and a
\* 32-byte target that has the bytes of Digest1.
Payloads == {<<116>>, Digest1}

Entry(filename, external_attr, extra, payload) ==
    [filename |-> filename, external_attr |-> external_attr,
     extra |-> extra, payload |-> payload]

\* One file entry for every buffer, with no external attributes or as a
\* symbolic link.
RichEntries ==
    {Entry("SYSTEM/build.prop", a, x, <<116>>) :
        a \in {[hi |-> 0, lo |-> 0], [hi |-> 41471, lo |-> 0]}, x \in Extras}

\* A few buffers: empty, a digest block, the signature-only block, a
\* digest-id header with no payload.
FewExtras ==
    { <<>>, DigestBlock(Digest1), DigestBlock(Digest2), SigOnlyBlock,
      Slice(SigOnlyBlock, 0, 4) }

\* Every name, attribute and payload with each of the few buffers.
AttrEntries ==
    {Entry(f, a, x, p) : f \in FileNames \cup DirNames, a \in ExternalAttrs,
                         x \in FewExtras, p \in Payloads}

\* The entries of the archives of several entries.
FewEntries ==
    {Entry(f, a, x, <<116>>) : f \in FileNames \cup DirNames,
                               a \in {[hi |-> 0, lo |-> 0], [hi |-> 41471, lo |-> 0]},
                               x \in FewExtras}

RECURSIVE SeqsUpTo(_, _)
SeqsUpTo(S, n) ==
    IF n = 0 THEN {<<>>}
    ELSE LET prev == SeqsUpTo(S, n - 1)
         IN  prev \cup {Append(s, e) : s \in prev, e \in S}

Archives ==
    {<<e>> : e \in RichEntries \cup AttrEntries} \cup SeqsUpTo(FewEntries, MaxEntries)

(***************************************************************************)
(* Inputs of a comparison pass.  The maps of the archive pass are built    *)
(* from archives: a file with a digest block, or a symbolic link whose     *)
(* target has the very bytes of Digest1.  The maps of the image pass hold  *)
(* hex digests of installed files.                                         *)
(***************************************************************************)
ZipKeys == {"IMAGES/boot.img", "IMAGES/system.img", "SYSTEM/build.prop", "system.img"}

ImgKeys == {"IMAGES/system.img", "boot.img", "system.img", "vendor_ramdisk.img"}

EntryKinds == {"digest1", "digest2", "link1"}

EntryOfKind(name, kind) ==
    CASE kind = "digest1" ->
            Entry(name, [hi |-> 33188, lo |-> 0], DigestBlock(Digest1), <<116>>)
      [] kind = "digest2" ->
            Entry(name, [hi |-> 33188, lo |-> 0], DigestBlock(Digest2), <<116>>)
      [] kind = "link1" ->
            Entry(name, [hi |-> 41471, lo |-> 0], <<>>, Digest1)

\* The functions from at most n elements of K to V.
FunctionsUpTo(K, V, n) ==
    UNION {[S -> V] : S \in {T \in SUBSET K : Cardinality(T) <= n}}

\* An archive with one entry of the given kind for each name.
ArchiveOf(content) ==
    LET names == Sorted(DOMAIN content)
    IN  [k \in 1..Len(names) |-> EntryOfKind(names[k], content[names[k]])]

CompareArchives == {ArchiveOf(c) : c \in FunctionsUpTo(ZipKeys, EntryKinds, MaxKeys)}

ImgShas == {"sha_a", "sha_b"}

ImgMaps == FunctionsUpTo(ImgKeys, ImgShas, MaxKeys)

ProductNames == <<"aosp_cf_x86_64_phone", "aosp_arm64", "aosp_riscv64", "aosp_x86">>

\* A comparison report: whether the file exists, and its lines.
Report(exists, lines) == [exists |-> exists, lines |-> lines]

\* A line left in a report by an earlier run.
StaleLine == Line("zip", "SYSTEM/build.prop", ShaDiffer, FALSE)

Reports == {Report(FALSE, <<>>), Report(TRUE, <<>>), Report(TRUE, <<StaleLine>>)}

(***************************************************************************)
(* State.                                                                  *)
(***************************************************************************)
VARIABLES
    \* get_local_file_sha256_fields
    zip_exists,          \* os.path.exists(zip_filepath)
    infolist,            \* zip_ref.infolist()
    idx,                 \* entries the for loop has gone through
    sha256_checksums,    \* the dict being built
    sha_not_found,       \* file names of the "sha not found" lines on stderr
    bpc,                 \* "start", "loop", "returned", "returned_none", "raised"
    \* compare_sha_maps ("zip") and compare_installed_img_sha_maps ("img")
    pass,                \* which of the two functions runs
    product,             \* its product argument
    soong_only_zip,      \* the archives the maps of the archive pass were
    soong_plus_make_zip, \*   built from (<<>> in the image pass)
    soong_only_map,
    soong_plus_make_map,
    all_keys,
    kidx,                \* keys the for loop has gone through
    all_identical,
    report,              \* the comparison_report.txt of each product
    report_pos,          \* the length of the report when the pass opened it
    cpc,                 \* "call", "loop", "returned"
    \* main
    products,
    pidx,                \* the index of the product of the for loop
    mpc,                 \* the place in main
    soong_only_success,
    soong_plus_make_success,
    soong_only_zip_sha_map,                 \* a map or None, see Some and None
    soong_only_installed_img_sha_map,
    soong_plus_make_zip_sha_map,
    soong_plus_make_installed_img_sha_map,
    target_files_differ_products,
    soong_only_build_failed_products,
    soong_plus_make_build_failed_products,
    dist_zip,            \* the target_files zip in each sub dist dir of the product
    install_dir,         \* the files of out/target/product/<product>, with digests
    stderr,
    exit_status          \* the status of the process once it has ended, else -1

VARIABLES
    \* ai/enable_soong_only.py, main
    explain,             \* args.explain
    eproducts,           \* args.products
    epidx,               \* the index of the product of the for loop
    epc,                 \* the place in main
    passed,              \* the first result of run_soong_only_diff_test
    commit_msg,          \* "" or which of the two messages was set
    project_paths,       \* how many modified projects `repo status` lists
    ppos,                \* projects the for loop of the commit has gone through
    elog,                \* the workspace operations run so far, in order
    \* rustc_linker.py
    old_clang_args,
    new_clang_args,
    replacementVersionScript,   \* None (see NoScript) or a string
    lpc,                 \* "filter", "modify", "run", "done"
    \* disk_usage.py, get_dot_repo_size
    du_found,            \* whether the du executable exists
    du_returncode,       \* the exit status of du
    du_stdout,           \* what du prints
    dpc,                 \* "call", "returned", "raised"
    dot_repo_size        \* the value returned, or the exception raised

bvars == <<zip_exists, infolist, idx, sha256_checksums, sha_not_found, bpc>>

clocals == <<pass, product, soong_only_zip, soong_plus_make_zip, soong_only_map,
             soong_plus_make_map, all_keys, kidx, all_identical, report_pos, cpc>>

cvars == <<clocals, report>>

mlocals == <<soong_only_success, soong_plus_make_success, soong_only_zip_sha_map,
             soong_only_installed_img_sha_map, soong_plus_make_zip_sha_map,
             soong_plus_make_installed_img_sha_map>>

mlists == <<target_files_differ_products, soong_only_build_failed_products,
            soong_plus_make_build_failed_products>>

mvars == <<products, pidx, mpc, mlocals, mlists, dist_zip, install_dir, stderr,
           exit_status>>

evars == <<explain, eproducts, epidx, epc, passed, commit_msg, project_paths,
           ppos, elog>>

lvars == <<old_clang_args, new_clang_args, replacementVersionScript, lpc>>

dvars == <<du_found, du_returncode, du_stdout, dpc, dot_repo_size>>

ovars == <<evars, lvars, dvars>>

vars == <<bvars, cvars, mvars, ovars>>

\* An optional map: None, or a dict.
None == [is_none |-> TRUE, map |-> EmptyDict]

Some(map) == [is_none |-> FALSE, map |-> map]

\* Python truthiness of an optional map: None and {} are false.
TruthyMap(m) == ~m.is_none /\ DOMAIN m.map # {}

\* A file that may be missing.
NoFile == [exists |-> FALSE, zip |-> <<>>]

File(zip) == [exists |-> TRUE, zip |-> zip]

\* The state of main while it does not run.
MainIdle ==
    /\ products = <<>>
    /\ pidx = 0
    /\ mpc = "idle"
    /\ soong_only_success = FALSE
    /\ soong_plus_make_success = FALSE
    /\ soong_only_zip_sha_map = None
    /\ soong_only_installed_img_sha_map = None
    /\ soong_plus_make_zip_sha_map = None
    /\ soong_plus_make_installed_img_sha_map = None
    /\ target_files_differ_products = <<>>
    /\ soong_only_build_failed_products = <<>>
    /\ soong_plus_make_build_failed_products = <<>>
    /\ dist_zip = [soong_only |-> NoFile, soong_plus_make |-> NoFile]
    /\ install_dir = EmptyDict
    /\ stderr = <<>>
    /\ exit_status = -1

\* The state of get_local_file_sha256_fields while it does not run.
BuildIdle ==
    /\ zip_exists = FALSE
    /\ infolist = <<>>
    /\ idx = 0
    /\ sha256_checksums = EmptyDict
    /\ sha_not_found = <<>>
    /\ bpc = "idle"

\* The state of a comparison pass while none runs.
CompareIdle ==
    /\ pass = "none"
    /\ product = ""
    /\ soong_only_zip = <<>>
    /\ soong_plus_make_zip = <<>>
    /\ soong_only_map = EmptyDict
    /\ soong_plus_make_map = EmptyDict
    /\ all_keys = <<>>
    /\ kidx = 0
    /\ all_identical = TRUE
    /\ report_pos = 0
    /\ cpc = "idle"

\* The state of enable_soong_only.py while it does not run.
EnableIdle ==
    /\ explain = FALSE
    /\ eproducts = <<>>
    /\ epidx = 0
    /\ epc = "idle"
    /\ passed = FALSE
    /\ commit_msg = ""
    /\ project_paths = 0
    /\ ppos = 0
    /\ elog = <<>>

\* The state of rustc_linker.py while it does not run.
LinkerIdle ==
    /\ old_clang_args = <<>>
    /\ new_clang_args = <<>>
    /\ replacementVersionScript = [is_none |-> TRUE, value |-> <<>>]
    /\ lpc = "idle"

\* The state of get_dot_repo_size while it does not run.
DuIdle ==
    /\ du_found = TRUE
    /\ du_returncode = 0
    /\ du_stdout = <<>>
    /\ dpc = "idle"
    /\ dot_repo_size = [kind |-> "none", value |-> 0]

(***************************************************************************)
(* get_local_file_sha256_fields, one action per step.                      *)
(***************************************************************************)
BuildInit ==
    /\ EnableIdle /\ LinkerIdle /\ DuIdle
    /\ zip_exists \in BOOLEAN
    /\ infolist \in (IF zip_exists THEN Archives ELSE {<<>>})
    /\ idx = 0
    /\ sha256_checksums = EmptyDict
    /\ sha_not_found = <<>>
    /\ bpc = "start"
    /\ CompareIdle
    /\ report = EmptyDict
    /\ MainIdle

\* if not os.path.exists(zip_filepath): ... return None
OpenMissing ==
    /\ bpc = "start"
    /\ ~zip_exists
    /\ bpc' = "returned_none"
    /\ UNCHANGED <<zip_exists, infolist, idx, sha256_checksums, sha_not_found>>

\* sha256_checksums = {}; with zipfile.ZipFile(...): infolist = ...
OpenZip ==
    /\ bpc = "start"
    /\ zip_exists
    /\ bpc' = "loop"
    /\ UNCHANGED <<zip_exists, infolist, idx, sha256_checksums, sha_not_found>>

\* One iteration of: for member_info in infolist
ForEntry ==
    /\ bpc = "loop"
    /\ idx < Len(infolist)
    /\ LET st == EntryStep(infolist, infolist[idx + 1],
                            BuildState("ok", sha256_checksums, sha_not_found))
       IN  /\ idx' = idx + 1
           /\ bpc' = IF st.status = "raise" THEN "raised" ELSE "loop"
           /\ sha256_checksums' = st.map
           /\ sha_not_found' = st.warned
    /\ UNCHANGED <<zip_exists, infolist>>

\* return sha256_checksums
ReturnMap ==
    /\ bpc = "loop"
    /\ idx = Len(infolist)
    /\ bpc' = "returned"
    /\ UNCHANGED <<zip_exists, infolist, idx, sha256_checksums, sha_not_found>>

BuildNext ==
    \/ OpenMissing /\ UNCHANGED <<cvars, mvars, ovars>>
    \/ OpenZip /\ UNCHANGED <<cvars, mvars, ovars>>
    \/ ForEntry /\ UNCHANGED <<cvars, mvars, ovars>>
    \/ ReturnMap /\ UNCHANGED <<cvars, mvars, ovars>>

SpecBuild == BuildInit /\ [][BuildNext]_vars

(***************************************************************************)
(* compare_sha_maps and compare_installed_img_sha_maps, one action per     *)
(* step.  The two functions differ in the allowlist, in the format of the  *)
(* lines and in how they open the report: 'wt' empties it, 'at' appends.   *)
(***************************************************************************)
\* The maps a pass can be called with, with the archives behind them.
CompareInit ==
    /\ EnableIdle /\ LinkerIdle /\ DuIdle
    /\ BuildIdle
    /\ MainIdle
    /\ pass \in {"zip", "img"}
    /\ product = ProductNames[1]
    /\ soong_only_zip \in (IF pass = "zip" THEN CompareArchives ELSE {<<>>})
    /\ soong_plus_make_zip \in (IF pass = "zip" THEN CompareArchives ELSE {<<>>})
    /\ soong_only_map \in
          (IF pass = "zip" THEN {BuildMap(soong_only_zip).map} ELSE ImgMaps)
    /\ soong_plus_make_map \in
          (IF pass = "zip" THEN {BuildMap(soong_plus_make_zip).map} ELSE ImgMaps)
    /\ all_keys = <<>>
    /\ kidx = 0
    /\ all_identical = TRUE
    /\ report \in [{product} -> Reports]
    /\ report_pos = 0
    /\ cpc = "call"

\* with open(get_comparison_report_path(product), 'wt' or 'at') as file
OpenReport(mode, old) ==
    IF mode = "wt" THEN Report(TRUE, <<>>) ELSE Report(TRUE, old.lines)

OpenMode(p) == IF p = "zip" THEN "wt" ELSE "at"

\* all_keys = sorted(...); all_identical = True; with open(...) as file:
CompareOpen ==
    /\ cpc = "call"
    /\ all_keys' = AllKeys(soong_only_map, soong_plus_make_map)
    /\ all_identical' = TRUE
    /\ kidx' = 0
    /\ report' = [report EXCEPT ![product] = OpenReport(OpenMode(pass), @)]
    /\ report_pos' = Len(OpenReport(OpenMode(pass), report[product]).lines)
    /\ cpc' = "loop"
    /\ UNCHANGED <<pass, product, soong_only_zip, soong_plus_make_zip,
                   soong_only_map, soong_plus_make_map>>

\* One iteration of: for key in all_keys
CompareStep ==
    /\ cpc = "loop"
    /\ kidx < Len(all_keys)
    /\ LET r == CompareKey(pass, all_keys[kidx + 1], soong_only_map,
                           soong_plus_make_map, all_identical)
       IN  /\ report' = [report EXCEPT ![product].lines = @ \o r.lines]
           /\ all_identical' = r.all_identical
    /\ kidx' = kidx + 1
    /\ UNCHANGED <<pass, product, soong_only_zip, soong_plus_make_zip,
                   soong_only_map, soong_plus_make_map, all_keys, report_pos, cpc>>

\* return all_identical
CompareReturn ==
    /\ cpc = "loop"
    /\ kidx = Len(all_keys)
    /\ cpc' = "returned"
    /\ UNCHANGED <<pass, product, soong_only_zip, soong_plus_make_zip,
                   soong_only_map, soong_plus_make_map, all_keys, kidx,
                   all_identical, report, report_pos>>

CompareNext ==
    \/ CompareOpen /\ UNCHANGED <<bvars, mvars, ovars>>
    \/ CompareStep /\ UNCHANGED <<bvars, mvars, ovars>>
    \/ CompareReturn /\ UNCHANGED <<bvars, mvars, ovars>>

SpecCompare == CompareInit /\ [][CompareNext]_vars

(***************************************************************************)
(* main.  The builds are external: each run of a build either fails or     *)
(* leaves a target_files zip (or none) in the product's sub dist dir and   *)
(* installed files in the product's install dir.  Lines printed to stdout  *)
(* are not kept.                                                           *)
(***************************************************************************)
RegularFile(name, extra) == Entry(name, [hi |-> 33188, lo |-> 0], extra, <<116>>)

\* What a build may leave as target_files zip: no file, an archive without
\* entries, archives of files with digests, and an archive whose entry has a
\* digest-id header without payload.
MainZipFiles ==
    { NoFile,
      File(<<>>),
      File(<<RegularFile("SYSTEM/build.prop", DigestBlock(Digest1))>>),
      File(<<RegularFile("SYSTEM/build.prop", DigestBlock(Digest2))>>),
      File(<<RegularFile("IMAGES/system.img", DigestBlock(Digest2)),
             RegularFile("SYSTEM/build.prop", DigestBlock(Digest1))>>),
      File(<<RegularFile("SYSTEM/build.prop", Slice(SigOnlyBlock, 0, 4))>>) }

\* What a build may leave in the install dir, each file with its sha256.
InstallDirs ==
    { EmptyDict,
      ("boot.img" :> "sha_a"),
      ("boot.img" :> "sha_b"),
      ("boot.img" :> "sha_a") @@ ("system.img" :> "sha_b") }

\* A line (or a block of lines) on stderr.
Err(kind, p, lines) == [kind |-> kind, product |-> p, lines |-> lines]

\* get_installed_img_sha_map: the files of _INSTALLED_IMG_FILES that exist.
InstalledImgShaMap(dir) ==
    [img \in DOMAIN dir \cap Range(INSTALLED_IMG_FILES) |-> dir[img]]

\* The "sha not found" lines of one archive.
ShaNotFoundLines(p, warned) ==
    [k \in 1..Len(warned) |-> Err("sha not found", p, <<warned[k]>>)]

MainInit ==
    /\ EnableIdle /\ LinkerIdle /\ DuIdle
    /\ BuildIdle
    /\ CompareIdle
    /\ products \in {SubSeq(ProductNames, 1, n) : n \in 1..MaxProducts}
    /\ \E r \in {Report(FALSE, <<>>), Report(TRUE, <<StaleLine>>)} :
          report = [p \in Range(products) |-> r]
    /\ pidx = 1
    /\ mpc = "build_soong_only"
    /\ soong_only_success = FALSE
    /\ soong_plus_make_success = FALSE
    /\ soong_only_zip_sha_map = None
    /\ soong_only_installed_img_sha_map = None
    /\ soong_plus_make_zip_sha_map = None
    /\ soong_plus_make_installed_img_sha_map = None
    /\ target_files_differ_products = <<>>
    /\ soong_only_build_failed_products = <<>>
    /\ soong_plus_make_build_failed_products = <<>>
    /\ dist_zip = [soong_only |-> NoFile, soong_plus_make |-> NoFile]
    /\ install_dir = EmptyDict
    /\ stderr = <<>>
    /\ exit_status = -1

\* run_build_target_files_zip(product, soong_only): the result, and on
\* success the files the build and move_artifacts_to_subfolder leave.  The
\* files a failed build leaves are read by nothing in the run.
RunBuild(variant, ok) ==
    IF ok
    THEN \E z \in MainZipFiles, d \in InstallDirs :
            /\ dist_zip' = [dist_zip EXCEPT ![variant] = z]
            /\ install_dir' = d
    ELSE UNCHANGED <<dist_zip, install_dir>>

\* soong_only_success = run_build_target_files_zip(product, True)
\* soong_only_zip_sha_map = None; soong_only_installed_img_sha_map = None
BuildSoongOnly ==
    /\ mpc = "build_soong_only"
    /\ \E ok \in BOOLEAN :
          /\ soong_only_success' = ok
          /\ RunBuild("soong_only", ok)
    /\ soong_only_zip_sha_map' = None
    /\ soong_only_installed_img_sha_map' = None
    /\ mpc' = "read_soong_only"
    /\ UNCHANGED <<products, pidx, soong_plus_make_success,
                   soong_plus_make_zip_sha_map,
                   soong_plus_make_installed_img_sha_map, mlists, stderr,
                   exit_status, report>>

\* Mutant: the installed images of the soong-only build are not read right
\* after that build.
ReadMaps_ImgNotYet(variant) ==
    IF ~dist_zip[variant].exists
    THEN [status |-> "exit", zip_map |-> None, img_map |-> None, warned |-> <<>>]
    ELSE LET b == BuildMap(dist_zip[variant].zip)
         IN  IF b.status = "raise"
             THEN [status |-> "raise", zip_map |-> None, img_map |-> None,
                   warned |-> b.warned]
             ELSE [status |-> "ok", zip_map |-> Some(b.map),
                   img_map |-> IF variant = "soong_only" THEN None
                               ELSE Some(InstalledImgShaMap(install_dir)),
                   warned |-> b.warned]

\* get_zip_sha_map(product, soong_only) and get_installed_img_sha_map(product):
\* "exit" when the zip is not found (sys.exit with a message), "raise" when
\* get_local_file_sha256_fields raises, else the two maps.
ReadMaps(variant) ==
    IF ~dist_zip[variant].exists
    THEN [status |-> "exit", zip_map |-> None, img_map |-> None, warned |-> <<>>]
    ELSE LET b == BuildMap(dist_zip[variant].zip)
         IN  IF b.status = "raise"
             THEN [status |-> "raise", zip_map |-> None, img_map |-> None,
                   warned |-> b.warned]
             ELSE [status |-> "ok", zip_map |-> Some(b.map),
                   img_map |-> Some(InstalledImgShaMap(install_dir)),
                   warned |-> b.warned]

\* if soong_only_success: ... else: soong_only_build_failed_products.append
ReadSoongOnly ==
    /\ mpc = "read_soong_only"
    /\ IF soong_only_success
       THEN LET r == ReadMaps("soong_only")
            IN  /\ soong_only_zip_sha_map' = r.zip_map
                /\ soong_only_installed_img_sha_map' = r.img_map
                /\ stderr' = stderr \o ShaNotFoundLines(products[pidx], r.warned)
                               \o (IF r.status = "exit"
                                   THEN <<Err("Could not find", products[pidx], <<>>)>>
                                   ELSE <<>>)
                /\ mpc' = CASE r.status = "ok" -> "build_soong_plus_make"
                            [] r.status = "exit" -> "exited"
                            [] r.status = "raise" -> "raised"
                /\ exit_status' = IF r.status = "ok" THEN exit_status ELSE 1
                /\ UNCHANGED soong_only_build_failed_products
       ELSE /\ soong_only_build_failed_products' =
                  Append(soong_only_build_failed_products, products[pidx])
            /\ mpc' = "build_soong_plus_make"
            /\ UNCHANGED <<soong_only_zip_sha_map, soong_only_installed_img_sha_map,
                           stderr, exit_status>>
    /\ UNCHANGED <<products, pidx, soong_only_success, soong_plus_make_success,
                   soong_plus_make_zip_sha_map,
                   soong_plus_make_installed_img_sha_map,
                   target_files_differ_products,
                   soong_plus_make_build_failed_products, dist_zip, install_dir,
                   report>>

\* soong_plus_make_success = run_build_target_files_zip(product, False)
\* soong_plus_make_zip_sha_map = None; ..._installed_img_sha_map = None
BuildSoongPlusMake ==
    /\ mpc = "build_soong_plus_make"
    /\ \E ok \in BOOLEAN :
          /\ soong_plus_make_success' = ok
          /\ RunBuild("soong_plus_make", ok)
    /\ soong_plus_make_zip_sha_map' = None
    /\ soong_plus_make_installed_img_sha_map' = None
    /\ mpc' = "read_soong_plus_make"
    /\ UNCHANGED <<products, pidx, soong_only_success, soong_only_zip_sha_map,
                   soong_only_installed_img_sha_map, mlists, stderr,
                   exit_status, report>>

\* if soong_plus_make_success: ... else: ..._build_failed_products.append
ReadSoongPlusMake ==
    /\ mpc = "read_soong_plus_make"
    /\ IF soong_plus_make_success
       THEN LET r == ReadMaps("soong_plus_make")
            IN  /\ soong_plus_make_zip_sha_map' = r.zip_map
                /\ soong_plus_make_installed_img_sha_map' = r.img_map
                /\ stderr' = stderr \o ShaNotFoundLines(products[pidx], r.warned)
                               \o (IF r.status = "exit"
                                   THEN <<Err("Could not find", products[pidx], <<>>)>>
                                   ELSE <<>>)
                /\ mpc' = CASE r.status = "ok" -> "compare_zip"
                            [] r.status = "exit" -> "exited"
                            [] r.status = "raise" -> "raised"
                /\ exit_status' = IF r.status = "ok" THEN exit_status ELSE 1
                /\ UNCHANGED soong_plus_make_build_failed_products
       ELSE /\ soong_plus_make_build_failed_products' =
                  Append(soong_plus_make_build_failed_products, products[pidx])
            /\ mpc' = "compare_zip"
            /\ UNCHANGED <<soong_plus_make_zip_sha_map,
                           soong_plus_make_installed_img_sha_map, stderr,
                           exit_status>>
    /\ UNCHANGED <<products, pidx, soong_only_success, soong_plus_make_success,
                   soong_only_zip_sha_map, soong_only_installed_img_sha_map,
                   target_files_differ_products,
                   soong_only_build_failed_products, dist_zip, install_dir,
                   report>>

\* A comparison pass called from main on the product's report: the report
\* after it, and whether the product is appended to the differing products.
RunPass(p, old, so_map, spm_map) ==
    LET r == ComparePass(p, so_map, spm_map)
    IN  [report |-> Report(TRUE, OpenReport(OpenMode(p), old).lines \o r.lines),
         differ |-> ~r.all_identical]

\* if soong_only_zip_sha_map and soong_plus_make_zip_sha_map:
\*     if not compare_sha_maps(...): target_files_differ_products.append(product)
CompareZip ==
    /\ mpc = "compare_zip"
    /\ IF TruthyMap(soong_only_zip_sha_map) /\ TruthyMap(soong_plus_make_zip_sha_map)
       THEN LET r == RunPass("zip", report[products[pidx]],
                             soong_only_zip_sha_map.map,
                             soong_plus_make_zip_sha_map.map)
            IN  /\ report' = [report EXCEPT ![products[pidx]] = r.report]
                /\ target_files_differ_products' =
                      IF r.differ
                      THEN Append(target_files_differ_products, products[pidx])
                      ELSE target_files_differ_products
       ELSE UNCHANGED <<report, target_files_differ_products>>
    /\ mpc' = "compare_img"
    /\ UNCHANGED <<products, pidx, mlocals, soong_only_build_failed_products,
                   soong_plus_make_build_failed_products, dist_zip, install_dir,
                   stderr, exit_status>>

\* if soong_only_installed_img_sha_map and soong_plus_make_installed_img_sha_map:
\*     if not compare_installed_img_sha_maps(...): ...append(product)
CompareImg ==
    /\ mpc = "compare_img"
    /\ IF TruthyMap(soong_only_installed_img_sha_map)
          /\ TruthyMap(soong_plus_make_installed_img_sha_map)
       THEN LET r == RunPass("img", report[products[pidx]],
                             soong_only_installed_img_sha_map.map,
                             soong_plus_make_installed_img_sha_map.map)
            IN  /\ report' = [report EXCEPT ![products[pidx]] = r.report]
                /\ target_files_differ_products' =
                      IF r.differ
                      THEN Append(target_files_differ_products, products[pidx])
                      ELSE target_files_differ_products
       ELSE UNCHANGED <<report, target_files_differ_products>>
    /\ mpc' = "completed"
    /\ UNCHANGED <<products, pidx, mlocals, soong_only_build_failed_products,
                   soong_plus_make_build_failed_products, dist_zip, install_dir,
                   stderr, exit_status>>

\* print("Diff test for ... completed.") and the next iteration of the for
\* loop, or the end of the loop.  The locals of the iteration are dead in the
\* next one (each is assigned again before it is read) and the next product
\* has directories of its own, so both start afresh.
NextProduct ==
    /\ mpc = "completed"
    /\ IF pidx < Len(products)
       THEN /\ pidx' = pidx + 1
            /\ mpc' = "build_soong_only"
            /\ soong_only_success' = FALSE
            /\ soong_plus_make_success' = FALSE
            /\ soong_only_zip_sha_map' = None
            /\ soong_only_installed_img_sha_map' = None
            /\ soong_plus_make_zip_sha_map' = None
            /\ soong_plus_make_installed_img_sha_map' = None
            /\ dist_zip' = [soong_only |-> NoFile, soong_plus_make |-> NoFile]
            /\ install_dir' = EmptyDict
       ELSE /\ mpc' = "summary"
            /\ UNCHANGED <<pidx, mlocals, dist_zip, install_dir>>
    /\ UNCHANGED <<products, mlists, stderr, exit_status, report>>

\* The three for loops that print the failed and the differing products.
SummaryLines ==
    [k \in 1..Len(soong_plus_make_build_failed_products) |->
        Err("soong+make build failed", soong_plus_make_build_failed_products[k], <<>>)]
    \o [k \in 1..Len(soong_only_build_failed_products) |->
        Err("soong-only build failed", soong_only_build_failed_products[k], <<>>)]
    \o [k \in 1..Len(target_files_differ_products) |->
        Err("target-file.zip and/or $ANDROID_PRODUCT_OUT differs",
            target_files_differ_products[k], <<>>)]

\* if soong_plus_make_build_failed_products or ... : sys.exit(1)
AnyFailure ==
    \/ Len(soong_plus_make_build_failed_products) > 0
    \/ Len(soong_only_build_failed_products) > 0
    \/ Len(target_files_differ_products) > 0

\* The end of main: the summary, the echo of the report when there is one
\* product (open raises FileNotFoundError when there is no report), and the
\* exit status.
Summary ==
    /\ mpc = "summary"
    /\ IF Len(products) = 1 /\ ~report[products[1]].exists
       THEN /\ stderr' = stderr \o SummaryLines
            /\ mpc' = "raised"
            /\ exit_status' = 1
       ELSE /\ stderr' = stderr \o SummaryLines
                   \o (IF Len(products) = 1
                       THEN <<Err("report", products[1], report[products[1]].lines)>>
                       ELSE <<>>)
            /\ mpc' = "exited"
            /\ exit_status' = IF AnyFailure THEN 1 ELSE 0
    /\ UNCHANGED <<products, pidx, mlocals, mlists, dist_zip, install_dir, report>>

Next ==
    \/ BuildSoongOnly /\ UNCHANGED <<bvars, clocals, ovars>>
    \/ ReadSoongOnly /\ UNCHANGED <<bvars, clocals, ovars>>
    \/ BuildSoongPlusMake /\ UNCHANGED <<bvars, clocals, ovars>>
    \/ ReadSoongPlusMake /\ UNCHANGED <<bvars, clocals, ovars>>
    \/ CompareZip /\ UNCHANGED <<bvars, clocals, ovars>>
    \/ CompareImg /\ UNCHANGED <<bvars, clocals, ovars>>
    \/ NextProduct /\ UNCHANGED <<bvars, clocals, ovars>>
    \/ Summary /\ UNCHANGED <<bvars, clocals, ovars>>

Spec == MainInit /\ [][Next]_vars

(***************************************************************************)
(* ai/enable_soong_only.py: main, one action per call it makes.  elog      *)
(* keeps the operations on the workspace (the repo and git commands of     *)
(* commit_changes_in_projects, clean_workspace) and the start and the      *)
(* except clause of each product.                                          *)
(***************************************************************************)
Op(op, p) == [op |-> op, product |-> p]

\* The commands of commit_changes_in_projects for one project, in order.
CommitCommands == <<"repo_start", "git_add", "git_commit", "repo_upload">>

\* Mutant: the finally clause cleans the workspace in every mode.
CleansWorkspace_Always(explain_mode) == TRUE

\* finally: if not args.explain: clean_workspace(args.head_branch)
CleansWorkspace(explain_mode) == ~explain_mode

EnableInit ==
    /\ BuildIdle /\ CompareIdle /\ MainIdle /\ LinkerIdle /\ DuIdle
    /\ report = EmptyDict
    /\ explain \in BOOLEAN
    /\ eproducts \in {SubSeq(ProductNames, 1, n) : n \in 1..MaxProducts}
    /\ epidx = 1
    /\ epc = "for"
    /\ passed = FALSE
    /\ commit_msg = ""
    /\ project_paths = 0
    /\ ppos = 0
    /\ elog = <<>>

\* for product in args.products: logging.info("--- Starting processing ...")
ForProduct ==
    /\ epc = "for"
    /\ elog' = Append(elog, Op("start", eproducts[epidx]))
    /\ epc' = "test"
    /\ UNCHANGED <<explain, eproducts, epidx, passed, commit_msg, project_paths, ppos>>

\* passed, diff_output = run_soong_only_diff_test(product); commit_msg = "".
\* The function catches CalledProcessError (the test failed); another
\* exception of subprocess.run leaves it.
RunDiffTest ==
    /\ epc = "test"
    /\ \E out \in {"pass", "fail", "raise"} :
          /\ passed' = (out = "pass")
          /\ commit_msg' = IF out = "raise" THEN commit_msg ELSE ""
          /\ epc' = CASE out = "raise" -> "except"
                      [] out = "fail" -> "gemini"
                      [] out = "pass" /\ ~explain -> "find_makefile"
                      [] OTHER -> "commit_check"
    /\ UNCHANGED <<explain, eproducts, epidx, project_paths, ppos, elog>>

\* debug_and_fix_diffs_with_gemini(...); if not args.explain: commit_msg = ...
DebugWithGemini ==
    /\ epc = "gemini"
    /\ \E ok \in BOOLEAN :
          IF ok
          THEN /\ commit_msg' = IF ~explain THEN "fix" ELSE commit_msg
               /\ epc' = "commit_check"
          ELSE /\ epc' = "except"
               /\ UNCHANGED commit_msg
    /\ UNCHANGED <<explain, eproducts, epidx, passed, project_paths, ppos, elog>>

\* makefile = find_product_makefile(product); if makefile: ...
FindMakefile ==
    /\ epc = "find_makefile"
    /\ \E out \in {"found", "none", "raise"} :
          epc' = CASE out = "found" -> "enable"
                   [] out = "none" -> "commit_check"
                   [] out = "raise" -> "except"
    /\ UNCHANGED <<explain, eproducts, epidx, passed, commit_msg, project_paths,
                   ppos, elog>>

\* enable_soong_only_in_makefile(product, makefile); commit_msg = ...
EnableInMakefile ==
    /\ epc = "enable"
    /\ \E ok \in BOOLEAN :
          IF ok
          THEN /\ commit_msg' = "enable"
               /\ epc' = "commit_check"
          ELSE /\ epc' = "except"
               /\ UNCHANGED commit_msg
    /\ UNCHANGED <<explain, eproducts, epidx, passed, project_paths, ppos, elog>>

\* if commit_msg: commit_changes_in_projects(branch_name, commit_msg)
CommitCheck ==
    /\ epc = "commit_check"
    /\ epc' = IF commit_msg # "" THEN "repo_status" ELSE "finally"
    /\ UNCHANGED <<explain, eproducts, epidx, passed, commit_msg, project_paths,
                   ppos, elog>>

\* status_output = run_command(['repo', 'status'], capture=True).stdout and
\* the projects found in it; return when there is none.
RepoStatus ==
    /\ epc = "repo_status"
    /\ \/ /\ epc' = "except"
          /\ UNCHANGED <<project_paths, ppos>>
       \/ \E n \in 0..MaxProjects :
             /\ project_paths' = n
             /\ ppos' = 0
             /\ epc' = IF n = 0 THEN "finally" ELSE "project"
    /\ UNCHANGED <<explain, eproducts, epidx, passed, commit_msg, elog>>

\* One iteration of `for path in project_paths`: the four commands in order
\* up to the first that fails (the except of the loop body logs it).
CommitProject ==
    /\ epc = "project"
    /\ ppos < project_paths
    /\ \E run \in 1..Len(CommitCommands) :
          elog' = elog \o [k \in 1..run |-> Op(CommitCommands[k], eproducts[epidx])]
    /\ ppos' = ppos + 1
    /\ epc' = IF ppos + 1 = project_paths THEN "finally" ELSE "project"
    /\ UNCHANGED <<explain, eproducts, epidx, passed, commit_msg, project_paths>>

\* except Exception as e: the two lines logged.
Except ==
    /\ epc = "except"
    /\ elog' = Append(elog, Op("except", eproducts[epidx]))
    /\ epc' = "finally"
    /\ UNCHANGED <<explain, eproducts, epidx, passed, commit_msg, project_paths, ppos>>

\* finally: if not args.explain: clean_workspace(args.head_branch), which
\* raises SystemExit when its command fails; then the next product.
Finally ==
    /\ epc = "finally"
    /\ \E ok \in BOOLEAN :
          LET cleans == CleansWorkspace(explain)
              goes_on == ok \/ ~cleans
          IN  /\ elog' = IF cleans
                         THEN Append(elog, Op("clean_workspace", eproducts[epidx]))
                         ELSE elog
              /\ epc' = IF ~goes_on THEN "aborted"
                        ELSE IF epidx < Len(eproducts) THEN "for" ELSE "done"
              /\ epidx' = IF goes_on /\ epidx < Len(eproducts)
                          THEN epidx + 1 ELSE epidx
    /\ UNCHANGED <<explain, eproducts, passed, commit_msg, project_paths, ppos>>

EnableNext ==
    \/ ForProduct /\ UNCHANGED <<bvars, cvars, mvars, lvars, dvars>>
    \/ RunDiffTest /\ UNCHANGED <<bvars, cvars, mvars, lvars, dvars>>
    \/ DebugWithGemini /\ UNCHANGED <<bvars, cvars, mvars, lvars, dvars>>
    \/ FindMakefile /\ UNCHANGED <<bvars, cvars, mvars, lvars, dvars>>
    \/ EnableInMakefile /\ UNCHANGED <<bvars, cvars, mvars, lvars, dvars>>
    \/ CommitCheck /\ UNCHANGED <<bvars, cvars, mvars, lvars, dvars>>
    \/ RepoStatus /\ UNCHANGED <<bvars, cvars, mvars, lvars, dvars>>
    \/ CommitProject /\ UNCHANGED <<bvars, cvars, mvars, lvars, dvars>>
    \/ Except /\ UNCHANGED <<bvars, cvars, mvars, lvars, dvars>>
    \/ Finally /\ UNCHANGED <<bvars, cvars, mvars, lvars, dvars>>

SpecEnable == EnableInit /\ [][EnableNext]_vars

(***************************************************************************)
(* rustc_linker.py.  A string is the sequence of its pieces: "=" is a      *)
(* piece of its own and no other piece holds a "=", so that startswith,    *)
(* split("=") and + act on the pieces as they act on the characters.       *)
(***************************************************************************)
AndroidVersionScriptPrefix == <<"-Wl,--android-version-script", "=">>

VersionScriptPrefix == <<"-Wl,--version-script", "=">>

\* arg.startswith(prefix)
StartsWith(arg, prefix) ==
    Len(arg) >= Len(prefix) /\ SubSeq(arg, 1, Len(prefix)) = prefix

\* The index of the first "=" of s at or after from, Len(s) + 1 without one.
NextEq(s, from) ==
    LET at == {k \in from..Len(s) : s[k] = "="}
    IN  IF at = {} THEN Len(s) + 1 ELSE CHOOSE k \in at : \A j \in at : k <= j

\* arg.split("=")[1] for an arg that holds a "=": the part between the first
\* "=" and the second, or the end.
SplitEq1(arg) ==
    LET first == NextEq(arg, 1)
    IN  SubSeq(arg, first + 1, NextEq(arg, first + 1) - 1)

\* replacementVersionScript: None, or a str.
NoScript == [is_none |-> TRUE, value |-> <<>>]

Script(value) == [is_none |-> FALSE, value |-> value]

\* if replacementVersionScript: neither None nor "".
TruthyScript(s) == ~s.is_none /\ Len(s.value) > 0

\* The first for loop from the i-th argument on; st holds new_clang_args
\* and replacementVersionScript.
RECURSIVE FilterFrom(_, _, _)
FilterFrom(old_args, i, st) ==
    IF i > Len(old_args)
    THEN st
    ELSE LET arg == old_args[i]
         IN  IF StartsWith(arg, AndroidVersionScriptPrefix)
             THEN FilterFrom(old_args, i + 1,
                             [st EXCEPT !.script = Script(SplitEq1(arg))])
             ELSE IF arg = <<"rsend.o">> \/ arg = <<"rsbegin.o">>
                  THEN FilterFrom(old_args, i + 1, st)
                  ELSE FilterFrom(old_args, i + 1,
                                  [st EXCEPT !.new = Append(@, old_args[i])])

\* The second for loop: the first -Wl,--version-script= argument is replaced,
\* or the argument is appended when there is none.
ModifyArgs(new_args, value) ==
    LET at == {k \in 1..Len(new_args) : StartsWith(new_args[k], VersionScriptPrefix)}
    IN  IF at = {}
        THEN Append(new_args, VersionScriptPrefix \o value)
        ELSE LET first == CHOOSE k \in at : \A j \in at : k <= j
             IN  [new_args EXCEPT ![first] = VersionScriptPrefix \o value]

\* The arguments rustc may pass after --android-clang-bin.
AndroidVersionScript(value) == AndroidVersionScriptPrefix \o value

LinkerArgs ==
    { AndroidVersionScript(<<"a.map">>),
      AndroidVersionScript(<<>>),
      AndroidVersionScript(<<"out/x", "=", "y/a.map">>),
      <<"-Wl,--version-script", "=", "rustc.map">>,
      <<"-Wl,--version-script", "=", "other.map">>,
      <<"rsend.o">>, <<"rsbegin.o">>, <<"-o">>, <<"lib.o">> }

\* old_clang_args = [args[0].android_clang_bin] + args[1]
LinkerInit ==
    /\ BuildIdle /\ CompareIdle /\ MainIdle /\ EnableIdle /\ DuIdle
    /\ report = EmptyDict
    /\ old_clang_args \in {<<(<<"clang">>)>> \o rest : rest \in SeqsUpTo(LinkerArgs, MaxArgs)}
    /\ new_clang_args = <<>>
    /\ replacementVersionScript = NoScript
    /\ lpc = "filter"

\* for i, arg in enumerate(old_clang_args): ...
FilterArgs ==
    /\ lpc = "filter"
    /\ LET st == FilterFrom(old_clang_args, 1, [new |-> <<>>, script |-> NoScript])
       IN  /\ new_clang_args' = st.new
           /\ replacementVersionScript' = st.script
    /\ lpc' = "modify"
    /\ UNCHANGED old_clang_args

\* if replacementVersionScript: ...
ModifyVersionScript ==
    /\ lpc = "modify"
    /\ new_clang_args' =
          IF TruthyScript(replacementVersionScript)
          THEN ModifyArgs(new_clang_args, replacementVersionScript.value)
          ELSE new_clang_args
    /\ lpc' = "run"
    /\ UNCHANGED <<old_clang_args, replacementVersionScript>>

\* subprocess.run(new_clang_args, check=True); sys.exit(-1) when clang fails.
RunClang ==
    /\ lpc = "run"
    /\ \E ok \in BOOLEAN : lpc' = IF ok THEN "done" ELSE "exit_255"
    /\ UNCHANGED <<old_clang_args, new_clang_args, replacementVersionScript>>

LinkerNext ==
    \/ FilterArgs /\ UNCHANGED <<bvars, cvars, mvars, evars, dvars>>
    \/ ModifyVersionScript /\ UNCHANGED <<bvars, cvars, mvars, evars, dvars>>
    \/ RunClang /\ UNCHANGED <<bvars, cvars, mvars, evars, dvars>>

SpecLinker == LinkerInit /\ [][LinkerNext]_vars

(***************************************************************************)
(* disk_usage.py: get_dot_repo_size.                                       *)
(*                                                                         *)
(* The standard output of du is a sequence of characters; the result of    *)
(* the call is a record [kind, value]: kind "int" for a returned size, or  *)
(* the name of the exception that leaves the function.                     *)
(***************************************************************************)
Digits == {"0", "4"}

Whitespace == {"\t", "\n"}

DuChars == Digits \cup {"\t", "r"}

DuReturnCodes == {0, 1}

Returned(value) == [kind |-> "int", value |-> value]

Raised(exception) == [kind |-> exception, value |-> 0]

\* str.split() without arguments: the first run of non-whitespace characters
\* of result, <<>> when there is none.
RECURSIVE SkipWhitespace(_)
SkipWhitespace(text) ==
    IF text # <<>> /\ Head(text) \in Whitespace
    THEN SkipWhitespace(Tail(text))
    ELSE text

RECURSIVE TakeToken(_)
TakeToken(text) ==
    IF text = <<>> \/ Head(text) \in Whitespace
    THEN <<>>
    ELSE <<Head(text)>> \o TakeToken(Tail(text))

FirstToken(result) == TakeToken(SkipWhitespace(result))

DigitValue(c) == IF c = "4" THEN 4 ELSE 0

IsDecimal(size_str) ==
    /\ size_str # <<>>
    /\ \A k \in 1..Len(size_str) : size_str[k] \in Digits

\* int(size_str) for a string of decimal digits.
RECURSIVE IntOf(_)
IntOf(size_str) ==
    IF size_str = <<>>
    THEN 0
    ELSE 10 * IntOf(SubSeq(size_str, 1, Len(size_str) - 1))
             + DigitValue(size_str[Len(size_str)])

DuInit ==
    /\ BuildIdle /\ CompareIdle /\ MainIdle /\ EnableIdle /\ LinkerIdle
    /\ report = EmptyDict
    /\ du_found \in BOOLEAN
    /\ du_returncode \in DuReturnCodes
    /\ du_stdout \in SeqsUpTo(DuChars, MaxStdout)
    /\ dpc = "check_output"
    /\ dot_repo_size = Raised("none")

\* result = subprocess.check_output(["du", "-s", "-b", ".repo"], text=True)
CheckOutput ==
    /\ dpc = "check_output"
    /\ IF ~du_found
       THEN dpc' = "done" /\ dot_repo_size' = Raised("FileNotFoundError")
       ELSE IF du_returncode # 0
       THEN dpc' = "done" /\ dot_repo_size' = Raised("CalledProcessError")
       ELSE dpc' = "parse" /\ UNCHANGED dot_repo_size
    /\ UNCHANGED <<du_found, du_returncode, du_stdout>>

\* size_str = result.split()[0]; return int(size_str)
ParseSize ==
    /\ dpc = "parse"
    /\ dpc' = "done"
    /\ LET size_str == FirstToken(du_stdout)
       IN  dot_repo_size' =
               IF size_str = <<>> THEN Raised("IndexError")
               ELSE IF ~IsDecimal(size_str) THEN Raised("ValueError")
               ELSE Returned(IntOf(size_str))
    /\ UNCHANGED <<du_found, du_returncode, du_stdout>>

DuNext ==
    \/ CheckOutput /\ UNCHANGED <<bvars, cvars, mvars, evars, lvars>>
    \/ ParseSize /\ UNCHANGED <<bvars, cvars, mvars, evars, lvars>>

SpecDu == DuInit /\ [][DuNext]_vars

(***************************************************************************)
(* Properties of get_local_file_sha256_fields.                             *)
(***************************************************************************)
\* The for loop has gone through at least one entry; infolist[idx] is the
\* entry of its last iteration.
EntryDone == bpc \in {"loop", "returned", "raised"} /\ idx >= 1

\* Buffers of well-formed blocks that hold one digest block, with blocks
\* that are not digest blocks before and after it.
DigestBuffers ==
    { [extra |-> pre \o DigestBlock(d) \o post, digest |-> d] :
        pre \in Concats(OtherBlocks, MaxBlocks - 1),
        post \in Concats(OtherBlocks, MaxBlocks - 1),
        d \in {Digest1, Digest2} }

\* C7: when the extra data of a file entry is made of well-formed blocks, one
\* of them a digest block (id 0x4967, size 34, signature 0x9514) and the
\* others not digest blocks (another id, or the digest id with no matching
\* signature), the entry's value in the map is exactly the 32 bytes after the
\* signature, whatever blocks come before or after the digest block.
C7_DigestRecovered ==
    (EntryDone /\ ~IsDir(infolist[idx])) =>
        \A r \in DigestBuffers :
            infolist[idx].extra = r.extra =>
                /\ bpc # "raised"
                /\ infolist[idx].filename \in DOMAIN sha256_checksums
                /\ sha256_checksums[infolist[idx].filename] = r.digest
                /\ Len(sha256_checksums[infolist[idx].filename]) = 32

\* C7 witness: a digest block between two other blocks was parsed and its
\* digest is the entry's value.
C7_Witness ==
    /\ bpc = "returned"
    /\ idx = 1
    /\ infolist[1].extra =
          Block(21589, 2, Sig) \o DigestBlock(Digest2) \o Block(51966, 0, <<>>)
    /\ infolist[1].filename \in DOMAIN sha256_checksums
    /\ sha256_checksums[infolist[1].filename] = Digest2

\* C8: parsing an entry's extra data never raises an error, whatever the
\* bytes are, so the for loop goes on to the remaining entries.
C8_ParsingNeverRaises == bpc # "raised"

\* C9: a digest-id block with a matching signature never yields a map value
\* shorter than its declared data size minus 2.
C9_NoTruncatedDigest ==
    (EntryDone /\ bpc # "raised" /\ ~IsDir(infolist[idx])) =>
        LET scan == ScanExtra(infolist[idx].extra)
        IN  (scan.status = "found" /\ Truthy(scan.sha)) =>
                /\ infolist[idx].filename \in DOMAIN sha256_checksums
                /\ Len(sha256_checksums[infolist[idx].filename])
                      >= scan.block_data_size - 2

\* The 6 bytes 67 49 02 00 14 95.
SixBytes == <<103, 73, 2, 0, 20, 149>>

IsSymlink(member_info) == S_ISLNK(ModeOf(member_info.external_attr))

\* C10: the iteration over a non-symlink entry whose extra data is exactly
\* the 6 bytes 67 49 02 00 14 95 leaves the digest map as it was.
C10_SigOnlyNotInserted ==
    [][ ( /\ bpc = "loop"
          /\ idx < Len(infolist)
          /\ infolist[idx + 1].extra = SixBytes
          /\ ~IsSymlink(infolist[idx + 1]) )
        => sha256_checksums' = sha256_checksums ]_vars

\* C10 witness: a regular file with these 6 bytes has been gone through and
\* its name is no key of the map.
C10_Witness ==
    /\ EntryDone
    /\ bpc = "returned"
    /\ infolist[idx].extra = SixBytes
    /\ ~IsDir(infolist[idx])
    /\ ~IsSymlink(infolist[idx])
    /\ infolist[idx].filename \notin DOMAIN sha256_checksums

\* C11: a file entry whose extra data is a digest-id block without digest
\* bytes (declared data size 0, or only the signature) followed by a
\* well-formed digest block gets the digest of that second block as its value.
C11_EmptyDigestBlockSkipped ==
    (EntryDone /\ ~IsDir(infolist[idx])) =>
        \A pre \in {Block(SHA_256_HEADER_ID, 0, <<>>), SigOnlyBlock},
           d \in {Digest1, Digest2} :
            infolist[idx].extra = pre \o DigestBlock(d) =>
                /\ bpc # "raised"
                /\ infolist[idx].filename \in DOMAIN sha256_checksums
                /\ sha256_checksums[infolist[idx].filename] = d

\* The buffer starts with blocks that are not digest blocks and then a
\* well-formed digest block of d, and goes on after it.
DigestFirst(extra, d) ==
    \E pre \in Concats(OtherBlocks, MaxBlocks - 2) :
        LET head == pre \o DigestBlock(d)
        IN  Len(extra) > Len(head) /\ SubSeq(extra, 1, Len(head)) = head

\* C12: the value of a file entry is the digest of the first digest block
\* with a matching signature in its extra data, whatever follows that block:
\* another digest block, any other block, or a block cut short.
C12_FirstDigestWins ==
    (EntryDone /\ ~IsDir(infolist[idx])) =>
        \A d \in {Digest1, Digest2} :
            DigestFirst(infolist[idx].extra, d) =>
                /\ bpc # "raised"
                /\ infolist[idx].filename \in DOMAIN sha256_checksums
                /\ sha256_checksums[infolist[idx].filename] = d

\* C12 witness: two digest blocks with different digests were parsed and the
\* value is the digest of the first.
C12_Witness ==
    /\ bpc = "returned"
    /\ idx = 1
    /\ infolist[1].extra = DigestBlock(Digest1) \o DigestBlock(Digest2)
    /\ infolist[1].filename \in DOMAIN sha256_checksums
    /\ sha256_checksums[infolist[1].filename] = Digest1

\* C13: no entry whose name is a directory's (it ends with a slash) has its
\* name among the keys of the map, at any point of the loop and in the map
\* returned, whatever its extra data and external attributes are.
C13_NoDirectoryKey ==
    /\ DOMAIN sha256_checksums \cap DirNames = {}
    /\ \A k \in 1..Len(infolist) :
          infolist[k].filename \in DirNames =>
              infolist[k].filename \notin DOMAIN sha256_checksums

\* C13 witness: the map was returned for an archive with a directory entry
\* that carries a digest block, and one that has the mode of a symbolic link.
C13_Witness ==
    /\ bpc = "returned"
    /\ \E k \in 1..Len(infolist) :
          /\ infolist[k].filename \in DirNames
          /\ infolist[k].extra = DigestBlock(Digest1)
    /\ \E k \in 1..Len(infolist) :
          /\ infolist[k].filename \in DirNames
          /\ infolist[k].external_attr.hi = 41471
    /\ DOMAIN sha256_checksums \cap DirNames = {}

\* The upper 16 bits of external_attr have the file type of a symbolic link
\* (0o120000 under the mask 0o170000).
LinkMode(member_info) == (member_info.external_attr.hi \div 4096) % 16 = 10

\* C14: an iteration over a non-directory entry that does not raise stores
\* the recovered digest under the entry's name when there is one, whatever
\* the mode is; stores the entry's payload (the link target) when there is
\* none and the mode is a symbolic link's; and leaves the map as it was when
\* there is none and the mode is not a symbolic link's.
C14_LinkTargetIffNoDigest ==
    [][ ( /\ bpc = "loop"
          /\ idx < Len(infolist)
          /\ infolist[idx + 1].filename \notin DirNames
          /\ bpc' # "raised" )
        => LET e == infolist[idx + 1]
               scan == ScanExtra(e.extra)
               digest == scan.status = "found" /\ Len(scan.sha) > 0
           IN  /\ digest =>
                     sha256_checksums' = DictSet(sha256_checksums, e.filename, scan.sha)
               /\ (~digest /\ LinkMode(e)) =>
                     sha256_checksums' = DictSet(sha256_checksums, e.filename, e.payload)
               /\ (~digest /\ ~LinkMode(e)) =>
                     sha256_checksums' = sha256_checksums ]_vars

\* C14 witness: the map was returned for an archive of two symbolic links,
\* one with a digest block, whose value is the digest and not its target,
\* and one without, whose value is its target.
C14_Witness ==
    /\ bpc = "returned"
    /\ \E j, k \in 1..Len(infolist) :
          /\ infolist[j].filename # infolist[k].filename
          /\ LinkMode(infolist[j]) /\ LinkMode(infolist[k])
          /\ infolist[j].extra = DigestBlock(Digest2)
          /\ infolist[k].extra = <<>>
          /\ infolist[j].filename \in DOMAIN sha256_checksums
          /\ infolist[k].filename \in DOMAIN sha256_checksums
          /\ sha256_checksums[infolist[j].filename] = Digest2
          /\ sha256_checksums[infolist[j].filename] # infolist[j].payload
          /\ sha256_checksums[infolist[k].filename] = infolist[k].payload

\* C15: every non-directory entry the loop has gone through without raising,
\* for which no digest was recovered and whose mode is not a symbolic link's,
\* is no key of the map on its account and has its "sha not found" line on
\* stderr, whatever its external attributes are; and the loop goes on to the
\* entries after it.
C15_WarnedWhenNoValue ==
    (bpc \in {"loop", "returned"}) =>
        \A k \in 1..idx :
            LET e == infolist[k]
                scan == ScanExtra(e.extra)
            IN  ( /\ e.filename \notin DirNames
                  /\ ~(scan.status = "found" /\ Len(scan.sha) > 0)
                  /\ ~LinkMode(e) )
                => \E j \in 1..Len(sha_not_found) : sha_not_found[j] = e.filename

(***************************************************************************)
(* Properties of the comparison passes.                                    *)
(***************************************************************************)
\* The pass has opened the report.
Comparing == cpc \in {"loop", "returned"}

\* The lines this call has written to the report.
Written ==
    SubSeq(report[product].lines, report_pos + 1, Len(report[product].lines))

UnionKeys == DOMAIN soong_only_map \cup DOMAIN soong_plus_make_map

InBoth(key) == key \in DOMAIN soong_only_map /\ key \in DOMAIN soong_plus_make_map

\* The key is missing from one map, or has two different values.
Diverges(key) ==
    ~InBoth(key) \/ soong_only_map[key] # soong_plus_make_map[key]

InPassAllowlist(key) ==
    \/ pass = "zip" /\ key \in SHA_DIFF_ALLOWLIST
    \/ pass = "img" /\ key \in Range(INSTALLED_IMG_FILES_SHA_DIFF_ALLOWLIST)

\* The written lines of a key.
LinesOf(key) == {k \in 1..Len(Written) : Written[k].key = key}

\* C1: in both passes the verdict is true exactly when every line written by
\* the call is marked ALLOWLISTED, a line is marked so exactly when its key is
\* in the pass's allowlist, and so the result is false exactly when some key
\* that is not allowlisted diverges, wherever it falls among the keys.
C1_VerdictIffAllowlisted ==
    Comparing =>
        /\ all_identical <=>
              \A k \in 1..Len(Written) : Written[k].allowlisted_str = "ALLOWLISTED"
        /\ \A k \in 1..Len(Written) :
              Written[k].allowlisted_str = "ALLOWLISTED" <=> InPassAllowlist(Written[k].key)
        /\ cpc = "returned" =>
              (all_identical <=>
                  \A key \in UnionKeys : Diverges(key) => InPassAllowlist(key))

\* C1 witness: a pass returned false after a line that is not allowlisted
\* was followed by an allowlisted one.
C1_Witness ==
    /\ cpc = "returned"
    /\ ~all_identical
    /\ Len(Written) >= 2
    /\ Written[1].allowlisted_str = "NOT ALLOWLISTED"
    /\ Written[2].allowlisted_str = "ALLOWLISTED"

\* C3: every key of the union is gone through exactly once; a key that was
\* gone through has exactly one line when it diverges and none when both maps
\* hold equal values, and no line belongs to a key outside the union.
C3_OneLinePerDivergingKey ==
    Comparing =>
        /\ \A key \in UnionKeys :
              Cardinality({k \in 1..Len(all_keys) : all_keys[k] = key}) = 1
        /\ \A k \in 1..Len(all_keys) :
              /\ all_keys[k] \in UnionKeys
              /\ Cardinality(LinesOf(all_keys[k])) =
                    IF k <= kidx /\ Diverges(all_keys[k]) THEN 1 ELSE 0
        /\ \A k \in 1..Len(Written) : Written[k].key \in UnionKeys
        /\ Len(Written) =
              Cardinality({k \in 1..kidx : Diverges(all_keys[k])})

\* C3 witness: a pass over at least three keys has returned, one key with
\* equal values and two diverging ones, with two lines written.
C3_Witness ==
    /\ cpc = "returned"
    /\ Len(all_keys) >= 3
    /\ \E key \in UnionKeys : ~Diverges(key)
    /\ Len(Written) = 2

\* C4: a line says "not found in soong only" exactly for a key that is only
\* in the soong-plus-make map, "not found in soong plus make" exactly for a
\* key that is only in the soong-only map, and "sha value differ" exactly for
\* a key of both maps with different values; every key gone through that is
\* in one of these cases has its line.
C4_Classification ==
    Comparing =>
        /\ \A k \in 1..Len(Written) :
              LET l == Written[k]
              IN  /\ l.reason = NotInSoongOnly <=>
                        (l.key \notin DOMAIN soong_only_map
                         /\ l.key \in DOMAIN soong_plus_make_map)
                  /\ l.reason = NotInSoongPlusMake <=>
                        (l.key \in DOMAIN soong_only_map
                         /\ l.key \notin DOMAIN soong_plus_make_map)
                  /\ l.reason = ShaDiffer <=>
                        (InBoth(l.key)
                         /\ soong_only_map[l.key] # soong_plus_make_map[l.key])
        /\ \A k \in 1..kidx :
              Diverges(all_keys[k]) => LinesOf(all_keys[k]) # {}

\* C4 witness: one pass has written a line of each of the three kinds.
C4_Witness ==
    /\ cpc = "returned"
    /\ \E i, j, k \in 1..Len(Written) :
          /\ Written[i].reason = NotInSoongOnly
          /\ Written[j].reason = NotInSoongPlusMake
          /\ Written[k].reason = ShaDiffer

\* C5: a pass given the same non-empty map twice writes no line and returns
\* true.
C5_SelfComparison ==
    (cpc = "returned" /\ soong_only_map = soong_plus_make_map
        /\ DOMAIN soong_only_map # {}) =>
            /\ Written = <<>>
            /\ all_identical

\* C5 witness: a pass over the same map of two keys has returned.
C5_Witness ==
    /\ cpc = "returned"
    /\ soong_only_map = soong_plus_make_map
    /\ Cardinality(DOMAIN soong_only_map) = 2
    /\ Written = <<>>
    /\ all_identical

\* How the archive's entry of that name got its map value: "sha" (a digest),
\* "symlink" (a link target), or another outcome; "absent" without an entry.
RecordKind(zip, name) ==
    LET at == {k \in 1..Len(zip) : zip[k].filename = name}
    IN  IF at = {} THEN "absent"
        ELSE ProcessEntry(zip, zip[CHOOSE k \in at : \A j \in at : j <= k]).kind

\* C6: a key that is a digest in one archive and a link target in the other
\* always gets a "sha value differ" line in the archive pass.
C6_DigestVsSymlinkDiffers ==
    (pass = "zip" /\ cpc = "returned") =>
        \A key \in UnionKeys :
            ( \/ /\ RecordKind(soong_only_zip, key) = "sha"
                 /\ RecordKind(soong_plus_make_zip, key) = "symlink"
              \/ /\ RecordKind(soong_only_zip, key) = "symlink"
                 /\ RecordKind(soong_plus_make_zip, key) = "sha" )
            => \E k \in 1..Len(Written) :
                  Written[k].key = key /\ Written[k].reason = ShaDiffer


\* The keys that are in the other pass's allowlist and not in this pass's.
OtherPassOnly ==
    IF pass = "zip"
    THEN Range(INSTALLED_IMG_FILES_SHA_DIFF_ALLOWLIST) \ SHA_DIFF_ALLOWLIST
    ELSE SHA_DIFF_ALLOWLIST \ Range(INSTALLED_IMG_FILES_SHA_DIFF_ALLOWLIST)

\* C16: a key that is only in the image allowlist (system.img) gets a NOT
\* ALLOWLISTED line when it diverges in the archive pass, and a key that is
\* only in the archive allowlist (IMAGES/system.img) gets a NOT ALLOWLISTED
\* line when it diverges in the image pass; in both cases the pass returns
\* false.
C16_AllowlistsAreSeparate ==
    Comparing =>
        /\ \A k \in 1..Len(Written) :
              Written[k].key \in OtherPassOnly =>
                  Written[k].allowlisted_str = "NOT ALLOWLISTED"
        /\ \A k \in 1..kidx :
              (all_keys[k] \in OtherPassOnly /\ Diverges(all_keys[k])) =>
                  /\ ~all_identical
                  /\ \E j \in 1..Len(Written) :
                        /\ Written[j].key = all_keys[k]
                        /\ Written[j].allowlisted_str = "NOT ALLOWLISTED"

\* C16 witness: the archive pass has returned false with system.img as its
\* only diverging key, or the image pass with IMAGES/system.img as its only
\* diverging key.
C16_Witness ==
    /\ cpc = "returned"
    /\ ~all_identical
    /\ Len(Written) = 1
    /\ Written[1].key = (IF pass = "zip" THEN "system.img" ELSE "IMAGES/system.img")
    /\ Written[1].allowlisted_str = "NOT ALLOWLISTED"

\* C17: the lines a pass writes are in strictly increasing order of their
\* keys, compared code point by code point, and when the pass returns their
\* keys are exactly the diverging keys: the sequence of keys in the report
\* is fixed by the two maps alone.
C17_LinesInKeyOrder ==
    Comparing =>
        /\ \A i, j \in 1..Len(Written) :
              i < j => StrLess(Written[i].key, Written[j].key)
        /\ cpc = "returned" =>
              {Written[k].key : k \in 1..Len(Written)}
                  = {key \in UnionKeys : Diverges(key)}

\* C17 witness: a pass has written three lines, the keys of the second map
\* falling before and after a key of the first in the order.
C17_Witness ==
    /\ cpc = "returned"
    /\ Len(Written) >= 3
    /\ \E i, j, k \in 1..Len(Written) :
          /\ i < j /\ j < k
          /\ Written[i].key \notin DOMAIN soong_only_map
          /\ Written[j].key \in DOMAIN soong_only_map
          /\ Written[k].key \notin DOMAIN soong_only_map

\* The names written in the literal of the installed-image allowlist.
AllowlistLiteralNames ==
    { "product.img", "system_dlkm.img", "system_ext.img", "system_other.img",
      "system.img", "userdata.img", "vbmeta.img", "vbmeta_system.img",
      "vbmeta_vendor.img", "vendor_boot.img", "vendor_dlkm.img", "vendor.img",
      "vendor_kernel_ramdisk.img", "vendor_ramdisk.img" }

\* C24: every name written in the allowlist literal is an element of the
\* allowlist and every element of the allowlist is one of the candidate file
\* names of _INSTALLED_IMG_FILES; so when the image pass writes a line for
\* vendor_kernel_ramdisk.img or vendor_ramdisk.img, as for any other name of
\* the literal, the line says ALLOWLISTED.
C24_AllowlistNamesAreMembers ==
    ( /\ pass = "img"
      /\ Comparing
      /\ \E k \in 1..Len(Written) :
            Written[k].key \in {"vendor_kernel_ramdisk.img", "vendor_ramdisk.img"} ) =>
        /\ \A k \in 1..Len(Written) :
              Written[k].key \in AllowlistLiteralNames =>
                  Written[k].allowlisted_str = "ALLOWLISTED"
        /\ AllowlistLiteralNames \subseteq Range(INSTALLED_IMG_FILES_SHA_DIFF_ALLOWLIST)
        /\ Range(INSTALLED_IMG_FILES_SHA_DIFF_ALLOWLIST) \subseteq Range(INSTALLED_IMG_FILES)

(***************************************************************************)
(* Properties of main.                                                     *)
(***************************************************************************)
\* No key outside the pass's allowlist is missing from one of the two maps
\* or has two different values.
NoBadDivergence(p, so_map, spm_map) ==
    \A key \in DOMAIN so_map \cup DOMAIN spm_map :
        ( \/ key \notin DOMAIN so_map
          \/ key \notin DOMAIN spm_map
          \/ so_map[key] # spm_map[key] )
        => Allowlisted(p, key)

\* Both builds of the product of this iteration succeeded and its maps have
\* no divergence on a key that is not allowlisted.
ProductClean ==
    /\ soong_only_success
    /\ soong_plus_make_success
    /\ NoBadDivergence("zip", soong_only_zip_sha_map.map,
                       soong_plus_make_zip_sha_map.map)
    /\ NoBadDivergence("img", soong_only_installed_img_sha_map.map,
                       soong_plus_make_installed_img_sha_map.map)

InSomeList(p) ==
    \/ p \in Range(soong_only_build_failed_products)
    \/ p \in Range(soong_plus_make_build_failed_products)
    \/ p \in Range(target_files_differ_products)

\* C2: the exit status is 0 only if every product had two successful builds
\* and no divergence on a key that is not allowlisted, in the archive maps and
\* in the image maps: a product that is not clean is on one of the three
\* lists when its iteration ends, and the process ends with status 0 only
\* after all products, with the three lists empty.
C2_ExitZeroOnlyIfClean ==
    /\ (mpc = "completed" /\ ~ProductClean) => InSomeList(products[pidx])
    /\ (mpc \in {"exited", "raised"} /\ exit_status = 0) =>
          (~AnyFailure /\ pidx = Len(products))


\* A pass of the product of this iteration was run and returned false.
PassFailed(p, so_opt, spm_opt) ==
    /\ TruthyMap(so_opt)
    /\ TruthyMap(spm_opt)
    /\ ~ComparePass(p, so_opt.map, spm_opt.map).all_identical

\* How many times p occurs in the list of differing products.
TimesDiffering(p) ==
    Cardinality({k \in 1..Len(target_files_differ_products) :
                    target_files_differ_products[k] = p})

\* C18: when the iteration of a product ends, the product is in the list of
\* differing products if and only if at least one of its two passes returned
\* false, and no product is ever in that list more than once.
C18_OneVerdictPerProduct ==
    /\ \A p \in Range(products) : TimesDiffering(p) <= 1
    /\ mpc = "completed" =>
          ( products[pidx] \in Range(target_files_differ_products)
            <=> \/ PassFailed("zip", soong_only_zip_sha_map,
                              soong_plus_make_zip_sha_map)
                \/ PassFailed("img", soong_only_installed_img_sha_map,
                              soong_plus_make_installed_img_sha_map) )

\* The summary line of kind k for product p is on stderr.
InSummary(k, p) == \E j \in 1..Len(stderr) : stderr[j] = Err(k, p, <<>>)

\* C19: a product with a failed build is in the list of the variant that
\* failed and in no comparison's result; once the run has ended after a failed
\* build, every product of the argument list was gone through, each failed
\* product has its line in the summary under the variant that failed, and the
\* exit status is not 0.
C19_BuildFailureIsolated ==
    /\ mpc \in {"compare_zip", "compare_img", "completed"} =>
          /\ ~soong_only_success =>
                products[pidx] \in Range(soong_only_build_failed_products)
          /\ ~soong_plus_make_success =>
                products[pidx] \in Range(soong_plus_make_build_failed_products)
          /\ (~soong_only_success \/ ~soong_plus_make_success) =>
                products[pidx] \notin Range(target_files_differ_products)
    /\ ( /\ mpc \in {"exited", "raised"}
         /\ \/ Len(soong_only_build_failed_products) > 0
            \/ Len(soong_plus_make_build_failed_products) > 0 ) =>
          /\ pidx = Len(products)
          /\ exit_status # 0
          /\ \A p \in Range(soong_only_build_failed_products) :
                InSummary("soong-only build failed", p)
          /\ \A p \in Range(soong_plus_make_build_failed_products) :
                InSummary("soong+make build failed", p)

\* A build of the product of this iteration reported success and left no
\* target-files archive.
MissingArchive ==
    \/ soong_only_success /\ ~dist_zip["soong_only"].exists
    \/ soong_plus_make_success /\ ~dist_zip["soong_plus_make"].exists

\* C20: a run in which a build reported success and left no target-files
\* archive still goes through every product of the argument list, and ends
\* with that product in the summary as failed.
C20_MissingArchiveIsolated ==
    (mpc \in {"exited", "raised"} /\ MissingArchive) =>
        /\ pidx = Len(products)
        /\ \E j \in 1..Len(stderr) :
              /\ stderr[j].product = products[pidx]
              /\ stderr[j].kind \in {"soong-only build failed",
                                     "soong+make build failed",
                                     "target-file.zip and/or $ANDROID_PRODUCT_OUT differs"}

\* The lines pass p produces for the product of this iteration in this run:
\* those of the comparison when it is run, none when it is not.
LinesOfThisRun(p, so_opt, spm_opt) ==
    IF TruthyMap(so_opt) /\ TruthyMap(spm_opt)
    THEN ComparePass(p, so_opt.map, spm_opt.map).lines
    ELSE <<>>

ReportOfThisRun ==
    LinesOfThisRun("zip", soong_only_zip_sha_map, soong_plus_make_zip_sha_map)
    \o LinesOfThisRun("img", soong_only_installed_img_sha_map,
                      soong_plus_make_installed_img_sha_map)

\* C21: when the iteration of a product ends, its report holds exactly the
\* lines of this run, those of the archive pass and then those of the image
\* pass, also when a pass was not run; and the report echoed on stderr for a
\* single product is this text.
C21_ReportIsThisRun ==
    /\ mpc = "completed" => report[products[pidx]].lines = ReportOfThisRun
    /\ \A j \in 1..Len(stderr) :
          stderr[j].kind = "report" => stderr[j].lines = ReportOfThisRun

\* The steps of one product, in the order of the loop body.
StepOrder ==
    <<"build_soong_only", "read_soong_only", "build_soong_plus_make",
      "read_soong_plus_make", "compare_zip", "compare_img", "completed">>

StepPos(pc) == CHOOSE k \in 1..Len(StepOrder) : StepOrder[k] = pc

\* C22: within a product every step is followed by the next one of the order
\* soong-only build, soong-only reading, soong-plus-make build,
\* soong-plus-make reading, archive comparison, image comparison; when the
\* soong-plus-make build starts, the soong-only image digests are those of the
\* install directory as the soong-only build left it, and that build does not
\* change them; only a build writes the install directory of a product and
\* only a comparison writes its report; the next product is the next of the
\* argument list and starts only after the comparisons of the one before.
C22_StepsInOrder ==
    [][ /\ ( /\ mpc \in Range(StepOrder)
             /\ mpc' \in Range(StepOrder)
             /\ pidx' = pidx
             /\ mpc' # mpc ) => StepPos(mpc') = StepPos(mpc) + 1
        /\ pidx' # pidx =>
              /\ pidx' = pidx + 1
              /\ mpc = "completed"
              /\ mpc' = "build_soong_only"
        /\ mpc = "build_soong_plus_make" =>
              /\ soong_only_installed_img_sha_map' = soong_only_installed_img_sha_map
              /\ soong_only_success =>
                    soong_only_installed_img_sha_map = Some(InstalledImgShaMap(install_dir))
        /\ (install_dir' # install_dir /\ pidx' = pidx) =>
              mpc \in {"build_soong_only", "build_soong_plus_make"}
        /\ report' # report => mpc \in {"compare_zip", "compare_img"}
      ]_vars

\* C22 witness: the second product has ended its comparisons after a
\* soong-plus-make build that left other images in the install directory than
\* the soong-only build, whose digests were kept.
C22_Witness ==
    /\ pidx = 2
    /\ mpc = "completed"
    /\ soong_only_success /\ soong_plus_make_success
    /\ ~soong_only_installed_img_sha_map.is_none
    /\ soong_only_installed_img_sha_map.map # InstalledImgShaMap(install_dir)
    /\ soong_plus_make_installed_img_sha_map.map = InstalledImgShaMap(install_dir)

(***************************************************************************)
(* Properties of ai/enable_soong_only.py.                                  *)
(***************************************************************************)
WorkspaceOps ==
    {"repo_start", "git_add", "git_commit", "repo_upload", "clean_workspace"}

\* The positions of clean_workspace for product p in the log.
Cleanups(p) == {k \in 1..Len(elog) : elog[k] = Op("clean_workspace", p)}

\* The try statement of the j-th product has been left.
Finished(j) == j < epidx \/ epc \in {"done", "aborted"}

\* C23: with --explain no branch is started, nothing is committed or uploaded
\* and clean_workspace is never called, whether the diff test passed or not;
\* without it clean_workspace is called exactly once for each product whose
\* try statement has been left, by whatever path (an exception among them),
\* after every other operation of that product and before any operation of a
\* later product.
C23_CleanupOncePerProduct ==
    /\ explain => \A k \in 1..Len(elog) : elog[k].op \notin WorkspaceOps
    /\ ~explain =>
          \A j \in 1..epidx :
              /\ Cardinality(Cleanups(eproducts[j])) = IF Finished(j) THEN 1 ELSE 0
              /\ \A c \in Cleanups(eproducts[j]), k \in 1..Len(elog) :
                    /\ k < c => elog[k].product \in {eproducts[i] : i \in 1..j}
                    /\ k > c => elog[k].product \in
                                    {eproducts[i] : i \in (j + 1)..Len(eproducts)}

\* C23 witness: a run without --explain has ended after a first product whose
\* processing raised an exception and a second whose changes were uploaded,
\* with one clean_workspace after each.
C23_Witness ==
    /\ ~explain
    /\ epc = "done"
    /\ Len(eproducts) >= 2
    /\ \E k \in 1..Len(elog) : elog[k] = Op("except", eproducts[1])
    /\ \E k \in 1..Len(elog) : elog[k] = Op("repo_upload", eproducts[2])
    /\ Cardinality(Cleanups(eproducts[1])) = 1
    /\ Cardinality(Cleanups(eproducts[2])) = 1

(***************************************************************************)
(* Properties of rustc_linker.py.                                          *)
(***************************************************************************)
IsAndroidVersionScript(arg) == StartsWith(arg, AndroidVersionScriptPrefix)

IsVersionScript(arg) == StartsWith(arg, VersionScriptPrefix)

\* An argument the script keeps: not the android-version-script argument and
\* neither of the two object files.
Retained(arg) ==
    /\ ~IsAndroidVersionScript(arg)
    /\ arg # <<"rsend.o">>
    /\ arg # <<"rsbegin.o">>

\* The whole value V of -Wl,--android-version-script=V.
ValueOf(arg) == SubSeq(arg, Len(AndroidVersionScriptPrefix) + 1, Len(arg))

\* C25: when the arguments hold one -Wl,--android-version-script=V, the
\* arguments passed to clang hold no android-version-script argument and are
\* the retained arguments, unchanged and in their order, with the first
\* -Wl,--version-script= argument replaced in place by -Wl,--version-script=V
\* with the whole of V, or with that argument appended last when there is
\* none.
C25_VersionScriptReplaced ==
    LET avs == {k \in 1..Len(old_clang_args) : IsAndroidVersionScript(old_clang_args[k])}
    IN  (lpc \in {"run", "done", "exit_255"} /\ Cardinality(avs) = 1) =>
            LET V == ValueOf(old_clang_args[CHOOSE k \in avs : TRUE])
                kept == SelectSeq(old_clang_args, Retained)
                vs == {k \in 1..Len(kept) : IsVersionScript(kept[k])}
            IN  /\ \A k \in 1..Len(new_clang_args) :
                      ~IsAndroidVersionScript(new_clang_args[k])
                /\ new_clang_args =
                      IF vs = {}
                      THEN Append(kept, VersionScriptPrefix \o V)
                      ELSE [kept EXCEPT ![CHOOSE k \in vs : \A j \in vs : k <= j] =
                                VersionScriptPrefix \o V]

(***************************************************************************)
(* Properties of disk_usage.py.                                            *)
(***************************************************************************)
\* C26: when du runs and ends with a non-zero exit status, get_dot_repo_size
\* returns 0 and raises no exception.
C26_ZeroWhenDuFails ==
    (dpc = "done" /\ du_found /\ du_returncode # 0) =>
        dot_repo_size = [kind |-> "int", value |-> 0]

====
